---- MODULE Spec2Model ----
(***************************************************************************)
(* Model of the Tilck VFS dispatch layer (kernel/fs/vfs.c).                *)
(*                                                                         *)
(* C strings are sequences of one-character strings; the byte after the    *)
(* last character is the terminator NUL.  Handlers are operators that      *)
(* return the value the C function returns together with the ordered list  *)
(* of backend hooks the function invoked ("calls") and whether it stopped  *)
(* in a failed ASSERT ("panic").                                           *)
(***************************************************************************)
EXTENDS Integers, Sequences, FiniteSets, TLC

(* ------------------------------ bounds --------------------------------- *)
MaxPathLen == 4      \* longest query path
MaxMpLen   == 4      \* longest mountpoint path given to check_mountpoint_match
MaxMountLen == 3     \* longest path of a registered mountpoint
MaxHandles == 2      \* handle slots of the backends
NumTasks   == 2      \* concurrently running tasks
MaxCalls   == 2      \* VFS calls each concurrent task makes
MaxObjs    == 9      \* objects offered to the tree
WorkerQueueSize == 2 \* get_worker_queue_size(0): slots of worker queue 0
MaxFmtLen  == 3      \* longest format string
MaxBufSize == 4      \* largest size given to vsnprintk

(* ------------------------- program constants --------------------------- *)
ENOENT  == 2
EBADF   == 9
EINVAL  == 22
ENOTTY  == 25
ESPIPE  == 29
O_CREAT == 64
MountBaseline == 1

(* ------------------------------ strings -------------------------------- *)
NUL == "NUL"
OOB == "OOB"
Chars == {"/", "a"}

\* s[i] of a NUL-terminated C string, 0-based
CharAt(s, i) == IF i < Len(s) THEN s[i + 1] ELSE IF i = Len(s) THEN NUL ELSE OOB

strlen(s) == Len(s)

MIN(a, b) == IF a < b THEN a ELSE b

RECURSIVE StrsOfLen(_)
StrsOfLen(n) == IF n = 0 THEN {<<>>}
                ELSE {Append(s, c) : s \in StrsOfLen(n - 1), c \in Chars}

StrsUpTo(n) == UNION {StrsOfLen(k) : k \in 0..n}

\* absolute paths
AbsPaths(n) == {s \in StrsUpTo(n) : Len(s) >= 1 /\ s[1] = "/"}

\* absolute paths that end with '/'
MpPaths(n) == {s \in AbsPaths(n) : s[Len(s)] = "/"}

Paths == AbsPaths(MaxPathLen)

(* ----------------------- check_mountpoint_match ------------------------ *)
\* the for loop of lines 31-37: m after the loop, starting at index i
RECURSIVE match_loop(_, _, _, _)
match_loop(mp, path, i, min_len) ==
   IF i < min_len /\ CharAt(mp, i) = CharAt(path, i)
      THEN match_loop(mp, path, i + 1, min_len)
      ELSE i

check_mountpoint_match_nopathend(mp, lm, path, lp) ==
   LET m == match_loop(mp, path, 0, MIN(lm, lp)) IN
   IF CharAt(mp, m) # NUL
      THEN IF CharAt(mp, m) = "/" /\ CharAt(mp, m + 1) = NUL
              THEN m
              ELSE 0
      ELSE IF CharAt(path, m - 1) # "/" /\ CharAt(path, m - 1) # NUL
              THEN 0
              ELSE m

check_mountpoint_match(mp, lm, path, lp) ==
   LET m == match_loop(mp, path, 0, MIN(lm, lp)) IN
   IF CharAt(mp, m) # NUL
      THEN IF CharAt(mp, m) = "/" /\ CharAt(mp, m + 1) = NUL
                                  /\ CharAt(path, m) = NUL
              THEN m
              ELSE 0
      ELSE IF CharAt(path, m - 1) # "/" /\ CharAt(path, m - 1) # NUL
              THEN 0
              ELSE m

(* ------------------------------- state --------------------------------- *)
VARIABLES
   mountpoints,   \* the registered mountpoints, in mountpoint_get_next() order
   ref_count,     \* filesystem -> fs->ref_count
   handles,       \* handle slot -> NoHandle or [fs, fops] (fs_handle_base)
   file_fops,     \* the operation table the backends give to their handles
   UNIT_TEST_ENVIRONMENT,  \* the build has no running task (vfs.c 142, 145)
   last,          \* the VFS call that just ended: arguments, result, hooks it
                  \* invoked; NoCall while no call is in progress
   held,          \* lock -> acquisitions minus releases
   panicked,      \* a failed ASSERT stopped the kernel
   cm,            \* arguments and result of check_mountpoint_match (SpecMatch)
   task,          \* SpecConc: task -> [pc, op, reg, left, mine], its place in
                  \* a VFS call and the handles it holds
   mp_lock,       \* SpecConc: the task iterating the mountpoints, or NoTask
   tally,         \* SpecConc: successful opens and dups, closes
   next_device_id,  \* static u32 next_device_id (vfs.c 13)
   dev_task,      \* SpecDev: task -> [pc, reg, began, left], its place in
                  \* vfs_get_new_device_id
   returned,      \* SpecDev: the calls that returned, in order of return:
                  \* [id, began], began = calls returned before it started
   tree,          \* SpecAvl: [root_obj, left_obj, right_obj], the root
                  \* reference and the child references of every object
   avl_last,      \* SpecAvl: the last insertion: object, result, entries
                  \* pushed on the path stack
   inserted,      \* SpecAvl: the objects whose insertion returned true
   g_counter,     \* SpecTasklet: static ATOMIC(u32) g_counter (se_tasklet.c 14)
   wq,            \* SpecTasklet: the jobs waiting in worker queue 0
   ctx,           \* SpecTasklet: struct se_tasklet_ctx: m is the owner of the
                  \* mutex or NULL, c the tasks waiting on the condition
   main,          \* SpecTasklet: the task running selftest_tasklet_short:
                  \* [pc, i, last_counter_val, did_yield, added]
   worker,        \* SpecTasklet: the worker of queue 0: [pc, job]
   jobs,          \* SpecTasklet: [enqueued, executed], the enqueue_job calls of
                  \* test_tasklet_func that returned true and its executions
   pk             \* SpecFmt: arguments and result of vsnprintk

conc_vars == <<task, mp_lock, tally>>
dev_vars == <<next_device_id, dev_task, returned>>
avl_vars == <<tree, avl_last, inserted>>
st_vars == <<g_counter, wq, ctx, main, worker, jobs>>
ext_vars == <<dev_vars, avl_vars, st_vars, pk>>
vars == <<mountpoints, ref_count, handles, file_fops, UNIT_TEST_ENVIRONMENT, last, held, panicked, cm,
          conc_vars, ext_vars>>

NULL == 0
FS == {1, 2}
H  == 1..MaxHandles
NoHandle == [fs |-> NULL, fops |-> {}]

LockHooks == {"exlock", "exunlock", "shlock", "shunlock"}
OpHooks   == {"read", "write", "seek", "ioctl", "fcntl",
              "read_ready", "write_ready", "except_ready"}

\* operation tables a backend may give to a handle ("stat" is mandatory)
FopsProfiles == {l \cup o \cup {"stat"} : l \in SUBSET LockHooks, o \in {OpHooks, {}}}
PlainFops == OpHooks \cup {"stat"}

OpenFlags == {0, 1 + O_CREAT}
HookRets == {-5, 1}          \* values a read/write/ioctl/... hook returns
OpenRets == {-12, 0}         \* values an open/dup hook returns
DupRets == OpenRets \cup {3} \* values a dup hook returns
BoolRets == {0, 1}           \* C false / true

Locks == ({"fs"} \X FS \X {"ex", "sh"}) \cup ({"h"} \X H \X {"ex", "sh"})

\* mountpoint paths without empty components
MountPaths == {s \in MpPaths(MaxMountLen) :
                  \A i \in 1..(Len(s) - 1) : ~(s[i] = "/" /\ s[i + 1] = "/")}
MountRecs == [path : MountPaths, fs : FS]
\* no, one or two registered mountpoints
MountTables == {<<>>} \cup {<<a>> : a \in MountRecs}
                      \cup {<<a, b>> : a \in MountRecs, b \in MountRecs}
\* '/' and '/a/' mounted, each with its own filesystem
TwoMounts == <<[path |-> <<"/">>, fs |-> 1], [path |-> <<"/", "a", "/">>, fs |-> 2]>>

NoCall == [op |-> "none", h |-> NULL, path |-> <<>>, flags |-> 0, fops |-> {},
           fs |-> NULL, mp |-> NULL, rc |-> 0, hook_rc |-> 0, calls |-> <<>>,
           trace |-> <<>>, panic |-> FALSE]

cm0 == [mp |-> <<"/">>, path |-> <<"/">>, ret |-> 0, done |-> FALSE]

Tasks == 1..NumTasks
NoTask == NULL
TaskIdle == [pc |-> "idle", op |-> "none", reg |-> 0, left |-> MaxCalls, mine |-> {}]
NoTally == [opens |-> 0, dups |-> 0, closes |-> 0]
\* no concurrent task is running
ConcInit == /\ task = [t \in Tasks |-> TaskIdle]
            /\ mp_lock = NoTask
            /\ tally = NoTally

DevIdle == [pc |-> "idle", reg |-> 0, began |-> 0, left |-> MaxCalls]
\* a static variable without initializer is zero; no call has been made
DevInit == /\ next_device_id = 0
           /\ dev_task = [t \in Tasks |-> DevIdle]
           /\ returned = <<>>

Objs == 1..MaxObjs
\* the value the comparator looks at: the last object has the value of the first
Key(o) == IF o = MaxObjs THEN 1 ELSE o
EmptyTree == [root_obj |-> NULL, left_obj |-> [o \in Objs |-> NULL],
              right_obj |-> [o \in Objs |-> NULL]]
NoInsert == [obj |-> NULL, ret |-> FALSE, stack_size |-> 0]
AvlInit == /\ tree = EmptyTree
           /\ avl_last = NoInsert
           /\ inserted = {}

\* selftest_tasklet_short, lines 50-62: the locals, kcond_init, kmutex_init,
\* g_counter = 0; the queue is empty and the worker idle
MainStart == [pc |-> "iter", i |-> 0, last_counter_val |-> 0, did_yield |-> FALSE,
              added |-> FALSE]
WorkerIdle == [pc |-> "idle", job |-> "none"]
TaskletInit == /\ g_counter = 0
               /\ wq = <<>>
               /\ ctx = [m |-> "none", c |-> {}]
               /\ main = MainStart
               /\ worker = WorkerIdle
               /\ jobs = [enqueued |-> 0, executed |-> 0]

pk0 == [fmt |-> <<>>, size |-> 1, beyond |-> <<>>, str |-> <<>>, done |-> FALSE,
        ret |-> 0, out |-> <<>>, nul_at |-> 0, maxread |-> 0, oob_write |-> FALSE,
        panic |-> FALSE]
ExtInit == DevInit /\ AvlInit /\ TaskletInit /\ pk = pk0

(* ------------------------- hook invocations ---------------------------- *)
\* one invocation of a backend hook
Ev(hook, fs, h, path) == [hook |-> hook, fs |-> fs, h |-> h, path |-> path]

\* a step of a handler: the hooks it invoked and whether an ASSERT failed
Step(calls) == [calls |-> calls, panic |-> FALSE]
PANIC       == [calls |-> <<>>, panic |-> TRUE]
Then(a, b)  == IF a.panic THEN a
               ELSE [calls |-> a.calls \o b.calls, panic |-> b.panic]

\* ASSERT(x) stops the kernel when x is false
AssertFails(x) == ~x

get_fs(h) == handles[h].fs
fops(h)   == handles[h].fops


\* ---- specification of the pure function check_mountpoint_match ----
InitMatch ==
   /\ cm \in [mp : MpPaths(MaxMpLen), path : Paths, ret : {0}, done : {FALSE}]
   /\ mountpoints = <<>>
   /\ ref_count = [f \in FS |-> MountBaseline]
   /\ handles = [h \in H |-> NoHandle]
   /\ file_fops = PlainFops
   /\ UNIT_TEST_ENVIRONMENT = FALSE
   /\ last = NoCall
   /\ held = [l \in Locks |-> 0]
   /\ panicked = FALSE
   /\ ConcInit
   /\ ExtInit

ApplyMatch ==
   /\ ~cm.done
   /\ cm' = [cm EXCEPT !.done = TRUE,
                       !.ret = check_mountpoint_match(cm.mp, strlen(cm.mp),
                                                      cm.path, strlen(cm.path))]
   /\ UNCHANGED <<mountpoints, ref_count, handles, file_fops, UNIT_TEST_ENVIRONMENT,
                last, held, panicked, conc_vars, ext_vars>>

NextMatch == ApplyMatch

SpecMatch == InitMatch /\ [][NextMatch]_vars

\* ---- C2 ----
IsPrefix(p, s) == Len(p) <= Len(s) /\ SubSeq(s, 1, Len(p)) = p

\* C2: check_mountpoint_match reports a match (non-zero) iff mp is a whole
\* prefix of path or path followed by '/' equals mp; a shared prefix that
\* stops in the middle of a path component is never a match.
C2_MatchIffBoundary ==
   cm.done =>
      ((cm.ret # 0) <=> (IsPrefix(cm.mp, cm.path) \/ Append(cm.path, "/") = cm.mp))

\* a mountpoint that shares a prefix with the path up to the middle of a
\* component ('/a/' against '/aa') was checked and rejected
C2_Witness ==
   /\ cm.done /\ cm.ret = 0
   /\ Len(cm.mp) >= 3
   /\ cm.mp[Len(cm.mp) - 1] # "/"
   /\ Len(cm.path) >= Len(cm.mp)
   /\ SubSeq(cm.path, 1, Len(cm.mp) - 1) = SubSeq(cm.mp, 1, Len(cm.mp) - 1)
   /\ cm.path[Len(cm.mp)] # "/"

(* --------------------- lock delegation (vfs.c 245-327) ----------------- *)
vfs_fs_exlock(fs)   == Step(<<Ev("fs_exlock", fs, NULL, <<>>)>>)
vfs_fs_exunlock(fs) == Step(<<Ev("fs_exunlock", fs, NULL, <<>>)>>)
vfs_fs_shlock(fs)   == Step(<<Ev("fs_shlock", fs, NULL, <<>>)>>)
vfs_fs_shunlock(fs) == Step(<<Ev("fs_shunlock", fs, NULL, <<>>)>>)

\* a hook of the handle's own operation table
Hook(name, h) == Step(<<Ev(name, get_fs(h), h, <<>>)>>)

vfs_exlock_always_fs(h) == vfs_fs_exlock(get_fs(h))

vfs_exlock(h) ==
   IF "exlock" \in fops(h)
      THEN Hook("exlock", h)
      ELSE IF AssertFails("exunlock" \notin fops(h)) THEN PANIC
           ELSE vfs_fs_exlock(get_fs(h))

vfs_exunlock(h) ==
   IF "exunlock" \in fops(h)
      THEN Hook("exunlock", h)
      ELSE IF AssertFails("exlock" \notin fops(h)) THEN PANIC
           ELSE vfs_fs_exunlock(get_fs(h))

vfs_shlock(h) ==
   IF "shlock" \in fops(h)
      THEN Hook("shlock", h)
      ELSE IF AssertFails("shunlock" \notin fops(h)) THEN PANIC
           ELSE vfs_fs_shlock(get_fs(h))

vfs_shunlock_noassert(h) ==
   IF "shunlock" \in fops(h)
      THEN Hook("shunlock", h)
      ELSE vfs_fs_shunlock(get_fs(h))

vfs_shunlock(h) ==
   IF "shunlock" \in fops(h)
      THEN Hook("shunlock", h)
      ELSE IF AssertFails("shlock" \notin fops(h)) THEN PANIC
           ELSE vfs_fs_shunlock(get_fs(h))

(* ------------------------ dispatch (vfs.c 171-413) --------------------- *)
\* what a handler hands back: no value reaches the caller after a panic
Ret(rc, s) == [rc |-> IF s.panic THEN 0 ELSE rc, calls |-> s.calls, panic |-> s.panic]

vfs_read_exlocked(h, ret) ==
   IF "read" \notin fops(h)
      THEN Ret(-EINVAL, Step(<<>>))
      ELSE Ret(ret, Then(vfs_exlock(h), Then(Hook("read", h), vfs_exunlock(h))))

vfs_read(h, ret) ==
   IF "read" \notin fops(h)
      THEN Ret(-EINVAL, Step(<<>>))
      ELSE Ret(ret, Then(vfs_shlock(h), Then(Hook("read", h), vfs_shunlock(h))))

vfs_write_leak_on_error(h, ret) ==
   IF "write" \notin fops(h)
      THEN Ret(-EINVAL, Step(<<>>))
      ELSE IF ret < 0
              THEN Ret(ret, Then(vfs_exlock(h), Hook("write", h)))
              ELSE Ret(ret, Then(vfs_exlock(h), Then(Hook("write", h), vfs_exunlock(h))))

vfs_write(h, ret) ==
   IF "write" \notin fops(h)
      THEN Ret(-EINVAL, Step(<<>>))
      ELSE Ret(ret, Then(vfs_exlock(h), Then(Hook("write", h), vfs_exunlock(h))))

\* a missing seek hook is reported like a missing read hook
vfs_seek_einval(h, ret) ==
   IF "seek" \notin fops(h)
      THEN Ret(-EINVAL, Step(<<>>))
      ELSE Ret(ret, Hook("seek", h))

vfs_seek(h, ret) ==
   IF "seek" \notin fops(h)
      THEN Ret(-ESPIPE, Step(<<>>))
      ELSE Ret(ret, Hook("seek", h))

vfs_ioctl(h, ret) ==
   IF "ioctl" \notin fops(h)
      THEN Ret(-ENOTTY, Step(<<>>))
      ELSE Ret(ret, Then(vfs_exlock(h), Then(Hook("ioctl", h), vfs_exunlock(h))))

vfs_stat64(h, ret) ==
   IF AssertFails("stat" \in fops(h))
      THEN Ret(0, PANIC)
      ELSE Ret(ret, Then(vfs_shlock(h), Then(Hook("stat", h), vfs_shunlock(h))))

vfs_getdents64_handle_lock(h, ret) ==
   Ret(ret, Then(vfs_shlock(h), Then(Hook("getdents64", h), vfs_shunlock(h))))

vfs_getdents64(h, ret) ==
   Ret(ret, Then(vfs_fs_shlock(get_fs(h)),
                 Then(Hook("getdents64", h), vfs_fs_shunlock(get_fs(h)))))

vfs_fcntl(h, ret) ==
   IF "fcntl" \notin fops(h)
      THEN Ret(-EINVAL, Step(<<>>))
      ELSE Ret(ret, Then(vfs_exlock(h), Then(Hook("fcntl", h), vfs_exunlock(h))))

\* like Ret, and hook_rc is the value the hook returned
RetHook(ret, s) == [rc |-> IF s.panic THEN 0 ELSE ret, hook_rc |-> ret,
                    calls |-> s.calls, panic |-> s.panic]

vfs_read_ready(h, ret) ==
   IF "read_ready" \notin fops(h)
      THEN Ret(1, Step(<<>>))
      ELSE RetHook(ret, Then(vfs_shlock(h), Then(Hook("read_ready", h), vfs_shunlock(h))))

vfs_write_ready(h, ret) ==
   IF "write_ready" \notin fops(h)
      THEN Ret(1, Step(<<>>))
      ELSE RetHook(ret, Then(vfs_shlock(h), Then(Hook("write_ready", h), vfs_shunlock(h))))

\* a handle without the hook reports an exceptional condition
vfs_except_ready_default_true(h, ret) ==
   IF "except_ready" \notin fops(h)
      THEN Ret(1, Step(<<>>))
      ELSE RetHook(ret, Then(vfs_shlock(h), Then(Hook("except_ready", h), vfs_shunlock(h))))

vfs_except_ready(h, ret) ==
   IF "except_ready" \notin fops(h)
      THEN Ret(0, Step(<<>>))
      ELSE RetHook(ret, Then(vfs_shlock(h), Then(Hook("except_ready", h), vfs_shunlock(h))))

(* ----------------------- open / close / dup (78-169) ------------------- *)
\* flags & bit, for a single-bit mask
HasFlag(flags, bit) == (flags \div bit) % 2 = 1

\* the while loop of lines 94-102 from the i-th mountpoint on
RECURSIVE best_match_loop_last_wins(_, _, _, _, _)
best_match_loop_last_wins(path, pl, i, best_match, best_match_len) ==
   IF i > Len(mountpoints)
      THEN [best_match |-> best_match, best_match_len |-> best_match_len]
      ELSE LET mp  == mountpoints[i]
               len == check_mountpoint_match(mp.path, strlen(mp.path), path, pl)
           IN IF len > 0
                 THEN best_match_loop_last_wins(path, pl, i + 1, i, len)
                 ELSE best_match_loop_last_wins(path, pl, i + 1, best_match, best_match_len)

RECURSIVE best_match_loop(_, _, _, _, _)
best_match_loop(path, pl, i, best_match, best_match_len) ==
   IF i > Len(mountpoints)
      THEN [best_match |-> best_match, best_match_len |-> best_match_len]
      ELSE LET mp  == mountpoints[i]
               len == check_mountpoint_match(mp.path, strlen(mp.path), path, pl)
           IN IF len > best_match_len
                 THEN best_match_loop(path, pl, i + 1, i, len)
                 ELSE best_match_loop(path, pl, i + 1, best_match, best_match_len)

\* path + n as a C string
StrFrom(path, n) == SubSeq(path, n + 1, Len(path))

fs_path_after_slash(path, best_match_len, pl) ==
   IF best_match_len < pl THEN StrFrom(path, best_match_len) ELSE <<"/">>

\* line 110
fs_path(path, best_match_len, pl) ==
   IF best_match_len < pl THEN StrFrom(path, best_match_len - 1) ELSE <<"/">>

\* rc is what the filesystem's open hook returns if it is invoked;
\* delta is the change applied to fs->ref_count
vfs_open(path, flags, rc) ==
   LET pl == strlen(path)
       bm == best_match_loop(path, pl, 1, NULL, 0)
   IN IF bm.best_match = NULL
         THEN [rc |-> -ENOENT, calls |-> <<>>, panic |-> FALSE, fs |-> NULL,
               mp |-> NULL, delta |-> 0]
         ELSE LET fs == mountpoints[bm.best_match].fs
                  op == Step(<<Ev("open", fs, NULL, fs_path(path, bm.best_match_len, pl))>>)
                  s  == IF HasFlag(flags, O_CREAT)
                           THEN Then(vfs_fs_exlock(fs), Then(op, vfs_fs_exunlock(fs)))
                           ELSE Then(vfs_fs_shlock(fs), Then(op, vfs_fs_shunlock(fs)))
              IN [rc |-> rc, calls |-> s.calls, panic |-> s.panic, fs |-> fs,
                  mp |-> bm.best_match, delta |-> IF rc = 0 THEN 1 ELSE 0]

\* lines 142-145: compiled out when UNIT_TEST_ENVIRONMENT is defined
remove_mappings(fs, h) ==
   IF UNIT_TEST_ENVIRONMENT THEN <<>>
   ELSE <<Ev("remove_all_mappings_of_handle", fs, h, <<>>)>>

\* the statements a sequence of hook invocations stands for
RECURSIVE Statements(_)
Statements(calls) ==
   IF calls = <<>> THEN <<>> ELSE <<Head(calls).hook>> \o Statements(Tail(calls))

\* the decrement is made before the close hook is invoked
vfs_close_count_first(h) ==
   LET fs == get_fs(h)
       calls == remove_mappings(fs, h) \o <<Ev("close", fs, h, <<>>)>>
   IN [rc |-> 0, calls |-> calls,
       trace |-> Statements(remove_mappings(fs, h))
                    \o <<"ref_count--", "close", "ASSERT">>,
       panic |-> AssertFails(ref_count[fs] - 1 > 0), fs |-> fs, delta |-> -1]

\* trace is the order in which the statements of the function are executed
vfs_close(h) ==
   LET fs == get_fs(h)
       calls == remove_mappings(fs, h) \o <<Ev("close", fs, h, <<>>)>>
   IN [rc |-> 0, calls |-> calls,
       trace |-> Statements(calls) \o <<"ref_count--", "ASSERT">>,
       panic |-> AssertFails(ref_count[fs] - 1 > 0), fs |-> fs, delta |-> -1]

vfs_dup_count_first(h, rc) ==
   IF h = NULL
      THEN [rc |-> -EBADF, calls |-> <<>>, panic |-> FALSE, fs |-> NULL, delta |-> 0]
      ELSE [rc |-> rc, calls |-> Hook("dup", h).calls, panic |-> FALSE,
            fs |-> get_fs(h), delta |-> 1]

\* a failure of the dup hook is reported as a bad handle
vfs_dup_ebadf_on_error(h, rc) ==
   IF h = NULL
      THEN [rc |-> -EBADF, hook_rc |-> 0, calls |-> <<>>, panic |-> FALSE,
            fs |-> NULL, delta |-> 0]
      ELSE [rc |-> IF rc # 0 THEN -EBADF ELSE 0, hook_rc |-> rc,
            calls |-> Hook("dup", h).calls, panic |-> FALSE,
            fs |-> get_fs(h), delta |-> IF rc # 0 THEN 0 ELSE 1]

\* rc (hook_rc) is what the filesystem's dup hook returns if it is invoked
vfs_dup(h, rc) ==
   IF h = NULL
      THEN [rc |-> -EBADF, hook_rc |-> 0, calls |-> <<>>, panic |-> FALSE,
            fs |-> NULL, delta |-> 0]
      ELSE [rc |-> rc, hook_rc |-> rc, calls |-> Hook("dup", h).calls, panic |-> FALSE,
            fs |-> get_fs(h), delta |-> IF rc # 0 THEN 0 ELSE 1]

(* ------------------------------ bookkeeping ---------------------------- *)
LockHookNames   == {"fs_exlock", "fs_shlock", "exlock", "shlock"}
UnlockHookNames == {"fs_exunlock", "fs_shunlock", "exunlock", "shunlock"}

EvMode(ev) == IF ev.hook \in {"fs_exlock", "fs_exunlock", "exlock", "exunlock"}
                 THEN "ex" ELSE "sh"
EvGran(ev) == IF ev.hook \in {"fs_exlock", "fs_exunlock", "fs_shlock", "fs_shunlock"}
                 THEN "fs" ELSE "h"
EvLock(ev) == IF EvGran(ev) = "fs" THEN <<"fs", ev.fs, EvMode(ev)>>
                                   ELSE <<"h", ev.h, EvMode(ev)>>
IsLock(ev)   == ev.hook \in LockHookNames
IsUnlock(ev) == ev.hook \in UnlockHookNames

\* acquisitions minus releases of lock l among the invocations of calls
RECURSIVE Balance(_, _)
Balance(l, calls) ==
   IF calls = <<>> THEN 0
   ELSE LET ev == Head(calls)
        IN (IF (IsLock(ev) \/ IsUnlock(ev)) /\ EvLock(ev) = l
               THEN (IF IsLock(ev) THEN 1 ELSE -1) ELSE 0)
           + Balance(l, Tail(calls))

FreeSlots == {h \in H : handles[h] = NoHandle}
OpenHandles == H \ FreeSlots
MinOf(S) == CHOOSE x \in S : \A y \in S : x <= y

\* record the call and account for the hooks it invoked
Finish(op, h, path, flags, fs, mp, r) ==
   /\ last' = [op |-> op, h |-> h, path |-> path, flags |-> flags,
               fops |-> IF h \in H THEN handles[h].fops ELSE {},
               fs |-> fs, mp |-> mp, rc |-> r.rc, calls |-> r.calls,
               hook_rc |-> IF "hook_rc" \in DOMAIN r THEN r.hook_rc ELSE 0,
               trace |-> IF "trace" \in DOMAIN r THEN r.trace ELSE <<>>,
               panic |-> r.panic]
   /\ held' = [l \in Locks |-> held[l] + Balance(l, r.calls)]
   /\ panicked' = r.panic
   /\ UNCHANGED <<mountpoints, file_fops, UNIT_TEST_ENVIRONMENT, cm, conc_vars, ext_vars>>

(* -------------------------------- actions ------------------------------ *)
\* a VFS entry point can be called
Idle == last = NoCall /\ ~panicked

Init ==
   /\ \/ mountpoints \in MountTables /\ file_fops = PlainFops
         /\ UNIT_TEST_ENVIRONMENT = FALSE
      \/ mountpoints = TwoMounts /\ file_fops \in FopsProfiles
         /\ UNIT_TEST_ENVIRONMENT = FALSE
      \/ mountpoints = TwoMounts /\ file_fops = PlainFops
         /\ UNIT_TEST_ENVIRONMENT = TRUE
   /\ ref_count = [f \in FS |-> MountBaseline]
   /\ handles = [h \in H |-> NoHandle]
   /\ last = NoCall
   /\ held = [l \in Locks |-> 0]
   /\ panicked = FALSE
   /\ cm = cm0
   /\ ConcInit
   /\ ExtInit

\* the backend creates the handle when its open hook returns 0
DoOpen ==
   /\ Idle
   /\ \E path \in Paths, flags \in OpenFlags,
         rc \in (IF FreeSlots = {} THEN OpenRets \ {0} ELSE OpenRets) :
      \E r \in {vfs_open(path, flags, rc)} :
         LET created == r.calls # <<>> /\ ~r.panic /\ rc = 0
         IN /\ handles' = IF created
                             THEN [handles EXCEPT ![MinOf(FreeSlots)] =
                                                     [fs |-> r.fs, fops |-> file_fops]]
                             ELSE handles
            /\ ref_count' = IF r.fs # NULL
                               THEN [ref_count EXCEPT ![r.fs] = @ + r.delta]
                               ELSE ref_count
            /\ Finish("vfs_open", NULL, path, flags, r.fs, r.mp, r)

\* the backend's close hook releases the handle
DoClose ==
   /\ Idle
   /\ \E h \in OpenHandles :
      \E r \in {vfs_close(h)} :
         /\ handles' = [handles EXCEPT ![h] = NoHandle]
         /\ ref_count' = [ref_count EXCEPT ![r.fs] = @ + r.delta]
         /\ Finish("vfs_close", h, <<>>, 0, r.fs, NULL, r)

\* the backend's dup hook creates a handle like h when it returns 0
DoDup ==
   /\ Idle
   /\ \E h \in OpenHandles \cup {NULL},
         rc \in (IF FreeSlots = {} THEN DupRets \ {0} ELSE DupRets) :
      \E r \in {vfs_dup(h, rc)} :
         LET created == r.calls # <<>> /\ rc = 0
         IN /\ handles' = IF created
                             THEN [handles EXCEPT ![MinOf(FreeSlots)] = handles[h]]
                             ELSE handles
            /\ ref_count' = IF r.fs # NULL
                               THEN [ref_count EXCEPT ![r.fs] = @ + r.delta]
                               ELSE ref_count
            /\ Finish("vfs_dup", h, <<>>, 0, r.fs, NULL, r)

\* a dispatch call on an open handle; it changes neither handles nor counts
Dispatch(op, h, r) ==
   /\ UNCHANGED <<handles, ref_count>>
   /\ Finish(op, h, <<>>, 0, get_fs(h), NULL, r)

DoRead   == Idle /\ \E h \in OpenHandles, ret \in HookRets : \E r \in {vfs_read(h, ret)} : Dispatch("vfs_read", h, r)
DoWrite  == Idle /\ \E h \in OpenHandles, ret \in HookRets : \E r \in {vfs_write(h, ret)} : Dispatch("vfs_write", h, r)
DoSeek   == Idle /\ \E h \in OpenHandles, ret \in HookRets : \E r \in {vfs_seek(h, ret)} : Dispatch("vfs_seek", h, r)
DoIoctl  == Idle /\ \E h \in OpenHandles, ret \in HookRets : \E r \in {vfs_ioctl(h, ret)} : Dispatch("vfs_ioctl", h, r)
DoStat64 == Idle /\ \E h \in OpenHandles, ret \in HookRets : \E r \in {vfs_stat64(h, ret)} : Dispatch("vfs_stat64", h, r)
DoGetdents64 == Idle /\ \E h \in OpenHandles, ret \in HookRets : \E r \in {vfs_getdents64(h, ret)} : Dispatch("vfs_getdents64", h, r)
DoFcntl  == Idle /\ \E h \in OpenHandles, ret \in HookRets : \E r \in {vfs_fcntl(h, ret)} : Dispatch("vfs_fcntl", h, r)
DoReadReady   == Idle /\ \E h \in OpenHandles, ret \in BoolRets : \E r \in {vfs_read_ready(h, ret)} : Dispatch("vfs_read_ready", h, r)
DoWriteReady  == Idle /\ \E h \in OpenHandles, ret \in BoolRets : \E r \in {vfs_write_ready(h, ret)} : Dispatch("vfs_write_ready", h, r)
DoExceptReady == Idle /\ \E h \in OpenHandles, ret \in BoolRets : \E r \in {vfs_except_ready(h, ret)} : Dispatch("vfs_except_ready", h, r)

\* the caller has taken the result of the call
Return ==
   /\ last # NoCall /\ ~panicked
   /\ last' = NoCall
   /\ UNCHANGED <<mountpoints, ref_count, handles, file_fops, UNIT_TEST_ENVIRONMENT,
                held, panicked, cm, conc_vars, ext_vars>>

Next ==
   \/ DoOpen \/ DoClose \/ DoDup
   \/ DoRead \/ DoWrite \/ DoSeek \/ DoIoctl \/ DoStat64 \/ DoGetdents64 \/ DoFcntl
   \/ DoReadReady \/ DoWriteReady \/ DoExceptReady
   \/ Return

Spec == Init /\ [][Next]_vars


(* ------------------- concurrent open / dup / close --------------------- *)
(* Preemptible tasks call vfs_open, vfs_dup and vfs_close on filesystem 1, *)
(* mounted at '/'.  A call is a sequence of steps; a task can be preempted *)
(* between any two of them.  fs->ref_count++ and fs->ref_count-- are plain *)
(* read-modify-write statements on a shared field: the build may emit one  *)
(* instruction (RefAtomic) or a load and a store (RefLoad, RefStore).      *)
(* Every task uses only the handles it has opened or duplicated itself.    *)
RootMount == <<[path |-> <<"/">>, fs |-> 1]>>
ConcFs == RootMount[1].fs

InitConc ==
   /\ mountpoints = RootMount
   /\ ref_count = [f \in FS |-> MountBaseline]
   /\ handles = [h \in H |-> NoHandle]
   /\ file_fops = PlainFops
   /\ UNIT_TEST_ENVIRONMENT = FALSE
   /\ last = NoCall
   /\ held = [l \in Locks |-> 0]
   /\ panicked = FALSE
   /\ cm = cm0
   /\ ConcInit
   /\ ExtInit

ConcUnchanged == UNCHANGED <<mountpoints, file_fops, UNIT_TEST_ENVIRONMENT, last, held, cm,
                             ext_vars>>

\* the change the call of task t applies to ref_count
RefDelta(t) == IF task[t].op = "vfs_close" THEN -1 ELSE 1

\* where the call goes on after its ref_count statement
AfterRef(t) == CASE task[t].op = "vfs_open"  -> "open_out"
                 [] task[t].op = "vfs_dup"   -> "idle"
                 [] task[t].op = "vfs_close" -> "close_assert"

\* vfs_open, line 92: mountpoint_iter_begin()
OpenBegin(t) ==
   /\ ~panicked /\ task[t].pc = "idle" /\ task[t].left > 0
   /\ mp_lock = NoTask
   /\ mp_lock' = t
   /\ task' = [task EXCEPT ![t] = [@ EXCEPT !.pc = "open_hook", !.op = "vfs_open",
                                            !.left = @ - 1]]
   /\ UNCHANGED <<ref_count, handles, panicked, tally>>
   /\ ConcUnchanged

\* vfs_open, lines 94-126: the lookup, then the open hook under the fs lock
OpenHook(t) ==
   /\ ~panicked /\ task[t].pc = "open_hook"
   /\ \E rc \in (IF FreeSlots = {} THEN OpenRets \ {0} ELSE OpenRets) :
      \E r \in {vfs_open(<<"/">>, 0, rc)} :
         /\ handles' = IF r.rc = 0
                          THEN [handles EXCEPT ![MinOf(FreeSlots)] =
                                                  [fs |-> r.fs, fops |-> file_fops]]
                          ELSE handles
         /\ tally' = IF r.rc = 0 THEN [tally EXCEPT !.opens = @ + 1] ELSE tally
         /\ task' = [task EXCEPT ![t] =
                        [@ EXCEPT !.pc = IF r.delta # 0 THEN "ref" ELSE "open_out",
                                  !.mine = IF r.rc = 0 THEN @ \cup {MinOf(FreeSlots)} ELSE @]]
   /\ UNCHANGED <<ref_count, panicked, mp_lock>>
   /\ ConcUnchanged

\* vfs_open, line 133: mountpoint_iter_end() and return
OpenOut(t) ==
   /\ ~panicked /\ task[t].pc = "open_out"
   /\ mp_lock' = NoTask
   /\ task' = [task EXCEPT ![t].pc = "idle"]
   /\ UNCHANGED <<ref_count, handles, panicked, tally>>
   /\ ConcUnchanged

\* vfs_dup, lines 160-164: the dup hook
DupHook(t) ==
   /\ ~panicked /\ task[t].pc = "idle" /\ task[t].left > 0
   /\ \E h \in task[t].mine,
         rc \in (IF FreeSlots = {} THEN OpenRets \ {0} ELSE OpenRets) :
      \E r \in {vfs_dup(h, rc)} :
         /\ handles' = IF r.rc = 0
                          THEN [handles EXCEPT ![MinOf(FreeSlots)] = handles[h]]
                          ELSE handles
         /\ tally' = IF r.rc = 0 THEN [tally EXCEPT !.dups = @ + 1] ELSE tally
         /\ task' = [task EXCEPT ![t] =
                        [@ EXCEPT !.op = "vfs_dup", !.left = @ - 1,
                                  !.pc = IF r.delta # 0 THEN "ref" ELSE "idle",
                                  !.mine = IF r.rc = 0 THEN @ \cup {MinOf(FreeSlots)} ELSE @]]
   /\ UNCHANGED <<ref_count, panicked, mp_lock>>
   /\ ConcUnchanged

\* vfs_close, lines 139-147: the mappings are removed, then the close hook
CloseHook(t) ==
   /\ ~panicked /\ task[t].pc = "idle" /\ task[t].left > 0
   /\ \E h \in task[t].mine :
      \E r \in {vfs_close(h)} :
         /\ handles' = [handles EXCEPT ![h] = NoHandle]
         /\ task' = [task EXCEPT ![t] =
                        [@ EXCEPT !.op = "vfs_close", !.left = @ - 1,
                                  !.pc = IF r.delta # 0 THEN "ref" ELSE "idle",
                                  !.mine = @ \ {h}]]
   /\ tally' = [tally EXCEPT !.closes = @ + 1]
   /\ UNCHANGED <<ref_count, panicked, mp_lock>>
   /\ ConcUnchanged

\* lines 129, 149, 166 as one instruction
RefAtomic(t) ==
   /\ ~panicked /\ task[t].pc = "ref"
   /\ ref_count' = [ref_count EXCEPT ![ConcFs] = @ + RefDelta(t)]
   /\ task' = [task EXCEPT ![t].pc = AfterRef(t)]
   /\ UNCHANGED <<handles, panicked, mp_lock, tally>>
   /\ ConcUnchanged

\* lines 129, 149, 166: the load of fs->ref_count
RefLoad(t) ==
   /\ ~panicked /\ task[t].pc = "ref"
   /\ task' = [task EXCEPT ![t] = [@ EXCEPT !.reg = ref_count[ConcFs], !.pc = "ref_store"]]
   /\ UNCHANGED <<ref_count, handles, panicked, mp_lock, tally>>
   /\ ConcUnchanged

\* lines 129, 149, 166: the store of the changed value
RefStore(t) ==
   /\ ~panicked /\ task[t].pc = "ref_store"
   /\ ref_count' = [ref_count EXCEPT ![ConcFs] = task[t].reg + RefDelta(t)]
   /\ task' = [task EXCEPT ![t] = [@ EXCEPT !.reg = 0, !.pc = AfterRef(t)]]
   /\ UNCHANGED <<handles, panicked, mp_lock, tally>>
   /\ ConcUnchanged

\* vfs_close, line 152: ASSERT(fs->ref_count > 0)
CloseAssert(t) ==
   /\ ~panicked /\ task[t].pc = "close_assert"
   /\ panicked' = AssertFails(ref_count[ConcFs] > 0)
   /\ task' = [task EXCEPT ![t].pc = IF panicked' THEN "panic" ELSE "idle"]
   /\ UNCHANGED <<ref_count, handles, mp_lock, tally>>
   /\ ConcUnchanged

NextConc ==
   \E t \in Tasks :
      \/ OpenBegin(t) \/ OpenHook(t) \/ OpenOut(t)
      \/ DupHook(t) \/ CloseHook(t)
      \/ RefAtomic(t) \/ RefLoad(t) \/ RefStore(t)
      \/ CloseAssert(t)

SpecConc == InitConc /\ [][NextConc]_vars

(* ------------------ vfs_get_new_device_id (362-365) -------------------- *)
(* Preemptible tasks call vfs_get_new_device_id.  next_device_id++ is a    *)
(* plain read-modify-write statement on a static variable: the build may   *)
(* emit one instruction (DevIdAtomic) or a load and a store.               *)
InitDev ==
   /\ mountpoints = <<>>
   /\ ref_count = [f \in FS |-> MountBaseline]
   /\ handles = [h \in H |-> NoHandle]
   /\ file_fops = PlainFops
   /\ UNIT_TEST_ENVIRONMENT = FALSE
   /\ last = NoCall
   /\ held = [l \in Locks |-> 0]
   /\ panicked = FALSE
   /\ cm = cm0
   /\ ConcInit
   /\ ExtInit

DevUnchanged == UNCHANGED <<mountpoints, ref_count, handles, file_fops, UNIT_TEST_ENVIRONMENT,
                            last, held, panicked, cm, conc_vars, avl_vars, st_vars, pk>>

\* the counter is a u32; with at most NumTasks * MaxCalls calls it stays far
\* below the value at which it wraps
\* next_device_id++ as one instruction; reg is the value the call returns
DevIdAtomic(t) ==
   /\ dev_task[t].pc = "idle" /\ dev_task[t].left > 0
   /\ next_device_id' = next_device_id + 1
   /\ dev_task' = [dev_task EXCEPT ![t] = [@ EXCEPT !.pc = "return", !.reg = next_device_id,
                                                     !.began = Len(returned),
                                                     !.left = @ - 1]]
   /\ UNCHANGED returned
   /\ DevUnchanged

\* next_device_id++: the load
DevIdLoad(t) ==
   /\ dev_task[t].pc = "idle" /\ dev_task[t].left > 0
   /\ dev_task' = [dev_task EXCEPT ![t] = [@ EXCEPT !.pc = "store", !.reg = next_device_id,
                                                     !.began = Len(returned),
                                                     !.left = @ - 1]]
   /\ UNCHANGED <<next_device_id, returned>>
   /\ DevUnchanged

\* next_device_id++: the store of the incremented value
DevIdStore(t) ==
   /\ dev_task[t].pc = "store"
   /\ next_device_id' = dev_task[t].reg + 1
   /\ dev_task' = [dev_task EXCEPT ![t].pc = "return"]
   /\ UNCHANGED returned
   /\ DevUnchanged

\* return of the value next_device_id had before the increment
DevIdReturn(t) ==
   /\ dev_task[t].pc = "return"
   /\ returned' = Append(returned, [id |-> dev_task[t].reg, began |-> dev_task[t].began])
   /\ dev_task' = [dev_task EXCEPT ![t] = [@ EXCEPT !.pc = "idle", !.reg = 0, !.began = 0]]
   /\ UNCHANGED next_device_id
   /\ DevUnchanged

NextDev ==
   \E t \in Tasks :
      \/ DevIdAtomic(t) \/ DevIdLoad(t) \/ DevIdStore(t) \/ DevIdReturn(t)

SpecDev == InitDev /\ [][NextDev]_vars

(* ------------------ AVL insertion (avl_insert.c.h) --------------------- *)
(* A reference to an object is the root reference or the left or the     *)
(* right child field of an object. The path stack never holds more than   *)
(* MaxObjs + 1 entries here, far fewer than its capacity.                  *)
root_obj_ref == <<"root_obj", NULL>>
Deref(t, ref) ==
   CASE ref[1] = "root_obj"  -> t.root_obj
     [] ref[1] = "left_obj"  -> t.left_obj[ref[2]]
     [] ref[1] = "right_obj" -> t.right_obj[ref[2]]
Store(t, ref, v) ==
   CASE ref[1] = "root_obj"  -> [t EXCEPT !.root_obj = v]
     [] ref[1] = "left_obj"  -> [t EXCEPT !.left_obj[ref[2]] = v]
     [] ref[1] = "right_obj" -> [t EXCEPT !.right_obj[ref[2]] = v]

\* objval_cmpfun: negative, zero or positive
CMP(a, b) == Key(a) - Key(b)

MAX(a, b) == IF a > b THEN a ELSE b
\* number of levels of the subtree of object o
RECURSIVE HEIGHT(_, _)
HEIGHT(t, o) ==
   IF o = NULL THEN 0
   ELSE 1 + MAX(HEIGHT(t, t.left_obj[o]), HEIGHT(t, t.right_obj[o]))
\* balance factor: height(right) - height(left)
BF(t, o) == HEIGHT(t, t.right_obj[o]) - HEIGHT(t, t.left_obj[o])

\* the left child of the object at ref takes its place
rotate_right(t, ref) ==
   LET n == Deref(t, ref)
       l == t.left_obj[n]
   IN Store([t EXCEPT !.left_obj[n] = t.right_obj[l], !.right_obj[l] = n], ref, l)
\* the right child of the object at ref takes its place
rotate_left(t, ref) ==
   LET n == Deref(t, ref)
       r == t.right_obj[n]
   IN Store([t EXCEPT !.right_obj[n] = t.left_obj[r], !.left_obj[r] = n], ref, r)

\* BALANCE(ref): a single or a double rotation when the balance factor of
\* the object at ref has left {-1, 0, 1}, chosen by the sign of the balance
\* factor of the deeper child
BALANCE(t, ref) ==
   LET n == Deref(t, ref)
   IN IF n = NULL THEN t
      ELSE IF BF(t, n) < -1
              THEN IF BF(t, t.left_obj[n]) > 0
                      THEN rotate_right(rotate_left(t, <<"left_obj", n>>), ref)
                      ELSE rotate_right(t, ref)
      ELSE IF BF(t, n) > 1
              THEN IF BF(t, t.right_obj[n]) < 0
                      THEN rotate_left(rotate_right(t, <<"right_obj", n>>), ref)
                      ELSE rotate_left(t, ref)
      ELSE t

\* the smaller objects are put to the right
RECURSIVE walk_reversed(_, _, _)
walk_reversed(t, obj, stack) ==
   LET node == Deref(t, stack[Len(stack)])
   IN IF node = NULL THEN [found |-> TRUE, stack |-> stack]
      ELSE LET c == CMP(obj, node)
           IN IF c = 0 THEN [found |-> FALSE, stack |-> stack]
              ELSE walk_reversed(t, obj,
                      Append(stack, IF c < 0 THEN <<"right_obj", node>>
                                             ELSE <<"left_obj", node>>))

\* lines 42-56: the descent; dest is the top of the stack
RECURSIVE walk(_, _, _)
walk(t, obj, stack) ==
   LET node == Deref(t, stack[Len(stack)])
   IN IF node = NULL THEN [found |-> TRUE, stack |-> stack]
      ELSE LET c == CMP(obj, node)
           IN IF c = 0 THEN [found |-> FALSE, stack |-> stack]
              ELSE walk(t, obj,
                      Append(stack, IF c < 0 THEN <<"left_obj", node>>
                                             ELSE <<"right_obj", node>>))

\* the reference pushed first, the root reference, is not balanced
RECURSIVE unwind_skip_root(_, _)
unwind_skip_root(t, stack) ==
   IF Len(stack) <= 1 THEN t
   ELSE unwind_skip_root(BALANCE(t, stack[Len(stack)]), SubSeq(stack, 1, Len(stack) - 1))

\* lines 61-62: while (stack_size > 0) BALANCE(STACK_POP())
RECURSIVE unwind(_, _)
unwind(t, stack) ==
   IF Len(stack) = 0 THEN t
   ELSE unwind(BALANCE(t, stack[Len(stack)]), SubSeq(stack, 1, Len(stack) - 1))

\* an object equal to a member is reported as inserted
bintree_insert_internal_dup_ok(t, obj) ==
   IF t.root_obj = NULL
      THEN [tree |-> [t EXCEPT !.root_obj = obj], ret |-> TRUE, stack_size |-> 0]
      ELSE LET w == walk(t, obj, <<root_obj_ref>>)
           IN IF ~w.found
                 THEN [tree |-> t, ret |-> TRUE, stack_size |-> Len(w.stack)]
                 ELSE [tree |-> unwind(Store(t, w.stack[Len(w.stack)], obj), w.stack),
                       ret |-> TRUE, stack_size |-> Len(w.stack)]

\* stack_size is the number of entries pushed on the path stack
bintree_insert_internal(t, obj) ==
   IF t.root_obj = NULL
      THEN [tree |-> [t EXCEPT !.root_obj = obj], ret |-> TRUE, stack_size |-> 0]
      ELSE LET w == walk(t, obj, <<root_obj_ref>>)
           IN IF ~w.found
                 THEN [tree |-> t, ret |-> FALSE, stack_size |-> Len(w.stack)]
                 ELSE [tree |-> unwind(Store(t, w.stack[Len(w.stack)], obj), w.stack),
                       ret |-> TRUE, stack_size |-> Len(w.stack)]

InitAvl ==
   /\ mountpoints = <<>>
   /\ ref_count = [f \in FS |-> MountBaseline]
   /\ handles = [h \in H |-> NoHandle]
   /\ file_fops = PlainFops
   /\ UNIT_TEST_ENVIRONMENT = FALSE
   /\ last = NoCall
   /\ held = [l \in Locks |-> 0]
   /\ panicked = FALSE
   /\ cm = cm0
   /\ ConcInit
   /\ ExtInit

\* the objects of the tree
RECURSIVE Members(_, _)
Members(t, o) ==
   IF o = NULL THEN {}
   ELSE {o} \cup Members(t, t.left_obj[o]) \cup Members(t, t.right_obj[o])

\* an initialised object that is not in the tree is inserted, or one that is
\* in the tree already is offered again
Insert ==
   \E obj \in Objs :
      \E r \in {bintree_insert_internal(tree, obj)} :
         /\ tree' = r.tree
         /\ avl_last' = [obj |-> obj, ret |-> r.ret, stack_size |-> r.stack_size]
         /\ inserted' = IF r.ret THEN inserted \cup {obj} ELSE inserted
         /\ UNCHANGED <<mountpoints, ref_count, handles, file_fops, UNIT_TEST_ENVIRONMENT,
                         last, held, panicked, cm, conc_vars, dev_vars, st_vars, pk>>

NextAvl == Insert

SpecAvl == InitAvl /\ [][NextAvl]_vars

(* --------------- selftest_tasklet_short (se_tasklet.c) ----------------- *)
(* The main task and the worker of queue 0 are preemptible tasks.  A job   *)
(* is enqueued when the queue has a free slot; the worker takes the queued *)
(* jobs one at a time, in an order the test does not rely on.  g_counter   *)
(* is atomic: g_counter++ is one step.  The check of line 80 is due every  *)
(* attempts_check attempts; here it may be due at any attempt.             *)
InitTasklet ==
   /\ mountpoints = <<>>
   /\ ref_count = [f \in FS |-> MountBaseline]
   /\ handles = [h \in H |-> NoHandle]
   /\ file_fops = PlainFops
   /\ UNIT_TEST_ENVIRONMENT = FALSE
   /\ last = NoCall
   /\ held = [l \in Locks |-> 0]
   /\ panicked = FALSE
   /\ cm = cm0
   /\ ConcInit
   /\ ExtInit

StUnchanged == UNCHANGED <<mountpoints, ref_count, handles, file_fops, UNIT_TEST_ENVIRONMENT,
                           last, held, cm, conc_vars, dev_vars, avl_vars, pk>>

max_tasklets == WorkerQueueSize
tot_iters == max_tasklets * 10

\* enqueue_job(0, func, arg): true when the job was put in the queue
enqueue_job(q, func) ==
   IF Len(q) < max_tasklets THEN [added |-> TRUE, wq |-> Append(q, func)]
   ELSE [added |-> FALSE, wq |-> q]

\* lines 69-73 and 100: the head of the for loop, or the statement after it
MainIter ==
   /\ ~panicked /\ main.pc = "iter"
   /\ main' = [main EXCEPT !.last_counter_val = g_counter, !.did_yield = FALSE,
                            !.pc = IF main.i < tot_iters THEN "enqueue" ELSE "poll"]
   /\ UNCHANGED <<g_counter, wq, ctx, worker, jobs, panicked>>
   /\ StUnchanged

\* lines 77-78: one attempt to enqueue test_tasklet_func
MainEnqueue ==
   /\ ~panicked /\ main.pc = "enqueue"
   /\ \E r \in {enqueue_job(wq, "test_tasklet_func")} :
         /\ wq' = r.wq
         /\ main' = [main EXCEPT !.added = r.added, !.pc = "check"]
         /\ jobs' = IF r.added THEN [jobs EXCEPT !.enqueued = @ + 1] ELSE jobs
   /\ UNCHANGED <<g_counter, ctx, worker, panicked>>
   /\ StUnchanged

\* lines 80-98: the periodic check for progress, then the loop conditions
MainCheck ==
   /\ ~panicked /\ main.pc = "check"
   /\ \E due \in BOOLEAN :
         LET stalled == due /\ g_counter = main.last_counter_val
         IN /\ panicked' = (stalled /\ main.did_yield)
            /\ main' = [main EXCEPT !.did_yield = @ \/ stalled,
                                     !.i = IF main.added THEN @ + 1 ELSE @,
                                     !.pc = IF stalled /\ main.did_yield THEN "panic"
                                            ELSE IF main.added THEN "iter" ELSE "enqueue"]
   /\ UNCHANGED <<g_counter, wq, ctx, worker, jobs>>
   /\ StUnchanged

\* the loop is left after the first poll that saw progress
MainPoll_once ==
   /\ ~panicked /\ main.pc = "poll"
   /\ panicked' = (g_counter = main.last_counter_val)
   /\ main' = [main EXCEPT !.last_counter_val = g_counter,
                            !.pc = IF g_counter = main.last_counter_val THEN "panic"
                                   ELSE "lock"]
   /\ UNCHANGED <<g_counter, wq, ctx, worker, jobs>>
   /\ StUnchanged

\* lines 106-118: after a sleep, counter_now = g_counter; panic without
\* progress; repeat while counter_now < tot_iters
MainPoll ==
   /\ ~panicked /\ main.pc = "poll"
   /\ panicked' = (g_counter = main.last_counter_val)
   /\ main' = [main EXCEPT !.last_counter_val = g_counter,
                            !.pc = IF g_counter = main.last_counter_val THEN "panic"
                                   ELSE IF g_counter < tot_iters THEN "poll"
                                   ELSE "lock"]
   /\ UNCHANGED <<g_counter, wq, ctx, worker, jobs>>
   /\ StUnchanged

\* line 122: kmutex_lock(&ctx.m)
MainLock ==
   /\ ~panicked /\ main.pc = "lock"
   /\ ctx.m = "none"
   /\ ctx' = [ctx EXCEPT !.m = "main"]
   /\ main' = [main EXCEPT !.pc = "enqueue_end"]
   /\ UNCHANGED <<g_counter, wq, worker, jobs, panicked>>
   /\ StUnchanged

\* lines 126-128: enqueue end_test until it is added
MainEnqueueEnd ==
   /\ ~panicked /\ main.pc = "enqueue_end"
   /\ \E r \in {enqueue_job(wq, "end_test")} :
         /\ wq' = r.wq
         /\ main' = [main EXCEPT !.added = r.added,
                                  !.pc = IF r.added THEN "cond_wait" ELSE "enqueue_end"]
   /\ UNCHANGED <<g_counter, ctx, worker, jobs, panicked>>
   /\ StUnchanged

\* line 132: kcond_wait releases the mutex and starts to wait in one step
MainCondWait ==
   /\ ~panicked /\ main.pc = "cond_wait"
   /\ ctx' = [m |-> "none", c |-> ctx.c \cup {"main"}]
   /\ main' = [main EXCEPT !.pc = "waiting"]
   /\ UNCHANGED <<g_counter, wq, worker, jobs, panicked>>
   /\ StUnchanged

\* line 132: signalled, kcond_wait takes the mutex again and returns
MainWake ==
   /\ ~panicked /\ main.pc = "waiting"
   /\ "main" \notin ctx.c /\ ctx.m = "none"
   /\ ctx' = [ctx EXCEPT !.m = "main"]
   /\ main' = [main EXCEPT !.pc = "unlock"]
   /\ UNCHANGED <<g_counter, wq, worker, jobs, panicked>>
   /\ StUnchanged

\* lines 134-138: kmutex_unlock and the end of the test
MainUnlock ==
   /\ ~panicked /\ main.pc = "unlock"
   /\ ctx' = [ctx EXCEPT !.m = "none"]
   /\ main' = [main EXCEPT !.pc = "done"]
   /\ UNCHANGED <<g_counter, wq, worker, jobs, panicked>>
   /\ StUnchanged

\* the worker takes one of the queued jobs
WorkerTake ==
   /\ ~panicked /\ worker.pc = "idle"
   /\ \E k \in 1..Len(wq) :
         /\ worker' = [pc |-> "run", job |-> wq[k]]
         /\ wq' = SubSeq(wq, 1, k - 1) \o SubSeq(wq, k + 1, Len(wq))
   /\ UNCHANGED <<g_counter, ctx, main, jobs, panicked>>
   /\ StUnchanged

\* lines 22-25: test_tasklet_func
test_tasklet_func ==
   /\ ~panicked /\ worker.pc = "run" /\ worker.job = "test_tasklet_func"
   /\ g_counter' = g_counter + 1
   /\ jobs' = [jobs EXCEPT !.executed = @ + 1]
   /\ worker' = WorkerIdle
   /\ UNCHANGED <<wq, ctx, main, panicked>>
   /\ StUnchanged

\* lines 31-37 of end_test: VERIFY(g_counter == tot_iters)
EndTestVerify ==
   /\ ~panicked /\ worker.pc = "run" /\ worker.job = "end_test"
   /\ panicked' = (g_counter # tot_iters)
   /\ worker' = [worker EXCEPT !.pc = IF g_counter # tot_iters THEN "panic" ELSE "et_lock"]
   /\ UNCHANGED <<g_counter, wq, ctx, main, jobs>>
   /\ StUnchanged

\* the condition is signalled without the mutex
EndTestLock_skipped ==
   /\ ~panicked /\ worker.pc = "et_lock"
   /\ worker' = [worker EXCEPT !.pc = "et_signal"]
   /\ UNCHANGED <<g_counter, wq, ctx, main, jobs, panicked>>
   /\ StUnchanged

\* line 39: kmutex_lock(&ctx->m)
EndTestLock ==
   /\ ~panicked /\ worker.pc = "et_lock"
   /\ ctx.m = "none"
   /\ ctx' = [ctx EXCEPT !.m = "worker"]
   /\ worker' = [worker EXCEPT !.pc = "et_signal"]
   /\ UNCHANGED <<g_counter, wq, main, jobs, panicked>>
   /\ StUnchanged

\* line 42: kcond_signal_one wakes one of the waiting tasks, if there is one
EndTestSignal ==
   /\ ~panicked /\ worker.pc = "et_signal"
   /\ IF ctx.c = {} THEN ctx' = ctx
      ELSE \E w \in ctx.c : ctx' = [ctx EXCEPT !.c = @ \ {w}]
   /\ worker' = [worker EXCEPT !.pc = "et_unlock"]
   /\ UNCHANGED <<g_counter, wq, main, jobs, panicked>>
   /\ StUnchanged

\* lines 44-46: kmutex_unlock(&ctx->m) and the end of end_test
EndTestUnlock ==
   /\ ~panicked /\ worker.pc = "et_unlock"
   /\ ctx.m = "worker"
   /\ ctx' = [ctx EXCEPT !.m = "none"]
   /\ worker' = WorkerIdle
   /\ UNCHANGED <<g_counter, wq, main, jobs, panicked>>
   /\ StUnchanged

MainStep ==
   \/ MainIter \/ MainEnqueue \/ MainCheck \/ MainPoll
   \/ MainLock \/ MainEnqueueEnd \/ MainCondWait \/ MainWake \/ MainUnlock
WorkerStep ==
   \/ WorkerTake \/ test_tasklet_func
   \/ EndTestVerify \/ EndTestLock \/ EndTestSignal \/ EndTestUnlock

NextTasklet == MainStep \/ WorkerStep

SpecTasklet == InitTasklet /\ [][NextTasklet]_vars

\* both tasks are scheduled again and again
SpecTaskletFair == SpecTasklet /\ WF_vars(MainStep) /\ WF_vars(WorkerStep)

(* -------------------------- vsnprintk (snprintk.c) --------------------- *)
(* The format string lies in memory followed by its terminator and by the  *)
(* bytes that happen to come after it (beyond); a read past those bytes    *)
(* yields NUL.  f is the index fmt points at, out the bytes written from   *)
(* initial_buf on, so that ctx->buf = initial_buf + Len(out).              *)
FmtChars == {"%", "#", "l", "5", "-", "0", "d", "x", "s", "a"}
RECURSIVE FmtsOfLen(_)
FmtsOfLen(n) ==
   IF n = 0 THEN {<<>>}
   ELSE {Append(t, c) : t \in FmtsOfLen(n - 1), c \in FmtChars}
Fmts == UNION {FmtsOfLen(n) : n \in 0..MaxFmtLen}
\* bytes after the terminator of the format string
Beyond == {<<>>, <<"a">>, <<"%">>}
\* the string every %s argument points to
StrArgs == {<<>>, <<"a", "a", "a">>}
\* the digits every converted number has
NumStr == <<"7">>

Digits == <<"0", "1", "2", "3", "4", "5", "6", "7", "8", "9">>
IsDigit(c) == \E i \in 1..Len(Digits) : Digits[i] = c
DigitVal(c) == (CHOOSE i \in 1..Len(Digits) : Digits[i] = c) - 1

\* the byte at index i of the memory the format string lies in
FmtAt(a, i) ==
   LET mem == a.fmt \o <<NUL>> \o a.beyond \o <<NUL>>
   IN IF i >= 1 /\ i <= Len(mem) THEN mem[i] ELSE NUL

\* the code has read the byte fmt + (i - f)
Touch(st, i) == [st EXCEPT !.maxread = MAX(@, i)]

\* lines 63-71
snprintk_ctx_reset_state(st) ==
   [st EXCEPT !.width = "pw_default", !.left_padding = 0, !.right_padding = 0,
              !.zero_lpad = FALSE, !.hash_sign = FALSE]

\* lines 24-31 and the macro WRITE_CHAR: the byte is stored without a test;
\* ok = FALSE stands for the jump to out
write_in_buf_char(a, st, c) ==
   IF ~st.ok THEN st
   ELSE [st EXCEPT !.oob_write = @ \/ Len(st.out) >= a.size,
                   !.out = Append(@, c),
                   !.ok = Len(st.out) + 1 < a.size]

\* lines 11-22
RECURSIVE write_in_buf_str(_, _, _)
write_in_buf_str(a, st, str) ==
   IF ~st.ok THEN st
   ELSE IF str # <<>> /\ Len(st.out) < a.size
           THEN write_in_buf_str(a, [st EXCEPT !.out = Append(@, Head(str))], Tail(str))
           ELSE [st EXCEPT !.ok = Len(st.out) < a.size]

\* lines 79-94
write_0x_prefix(a, st, fmtX) ==
   IF fmtX \in {"x", "p", "o"}
      THEN LET s1 == write_in_buf_char(a, st, "0")
           IN IF fmtX \in {"x", "p"} THEN write_in_buf_char(a, s1, "x") ELSE s1
      ELSE st

\* the for loops of lines 131-132 and 142-143
RECURSIVE write_pad(_, _, _, _)
write_pad(a, st, n, pad_char) ==
   IF ~st.ok \/ n <= 0 THEN st
   ELSE write_pad(a, write_in_buf_char(a, st, pad_char), n - 1, pad_char)

\* lines 96-149
write_str(a, st, fmtX, str) ==
   LET sl == Len(str)
       lpad0 == MAX(0, st.left_padding - sl)
       rpad0 == MAX(0, st.right_padding - sl)
       off == IF fmtX = "x" THEN 2 ELSE IF fmtX = "o" THEN 1 ELSE 0
       lpad == IF st.hash_sign THEN MAX(0, lpad0 - off) ELSE lpad0
       rpad == IF st.hash_sign THEN MAX(0, rpad0 - off) ELSE rpad0
       pad_char == IF st.zero_lpad /\ fmtX # "c" THEN "0" ELSE " "
       s1 == IF st.zero_lpad /\ st.hash_sign THEN write_0x_prefix(a, st, fmtX) ELSE st
       s2 == write_pad(a, s1, lpad, pad_char)
       s3 == IF (fmtX = "p" \/ st.hash_sign) /\ pad_char # "0"
                THEN write_0x_prefix(a, s2, fmtX) ELSE s2
       s4 == write_in_buf_str(a, s3, str)
   IN IF AssertFails(lpad0 = 0 \/ rpad0 = 0)
         THEN [st EXCEPT !.ok = FALSE, !.panic = TRUE]
         ELSE write_pad(a, s4, rpad, pad_char)

\* tilck_strtol(fmt + i - f, &fmt, 10, NULL): an optional '-' and a run of
\* digits; without digits nothing is converted and fmt stays at i
RECURSIVE DigitsEnd(_, _)
DigitsEnd(a, i) == IF IsDigit(FmtAt(a, i)) THEN DigitsEnd(a, i + 1) ELSE i
RECURSIVE DigitsVal(_, _, _)
DigitsVal(a, i, acc) ==
   IF IsDigit(FmtAt(a, i)) THEN DigitsVal(a, i + 1, acc * 10 + DigitVal(FmtAt(a, i)))
   ELSE acc
tilck_strtol(a, i) ==
   LET d == IF FmtAt(a, i) = "-" THEN i + 1 ELSE i
       e == DigitsEnd(a, d)
   IN IF e = d THEN [val |-> 0, end |-> i, read |-> d]
      ELSE [val |-> IF d = i THEN DigitsVal(a, d, 0) ELSE 0 - DigitsVal(a, d, 0),
            end |-> e, read |-> e]

\* lines 413-417: the terminator is stored at ctx->buf, or one byte before
\* it when ctx->buf has reached buf_end
vsnprintk_out(a, st) ==
   [ret |-> Len(st.out),
    out |-> st.out,
    nul_at |-> IF Len(st.out) < a.size THEN Len(st.out) ELSE Len(st.out) - 1,
    maxread |-> st.maxread, oob_write |-> st.oob_write, panic |-> st.panic]

RECURSIVE vsnprintk_loop(_, _), next_char_in_seq(_, _)

\* lines 408-410
end_sequence(a, st) ==
   IF ~st.ok THEN vsnprintk_out(a, st)
   ELSE vsnprintk_loop(a, [snprintk_ctx_reset_state(st) EXCEPT !.f = @ + 1])

\* a modifier: the next byte ends the string (truncated_seq), or it is the
\* next character of the sequence
after_modifier(a, st) ==
   LET s1 == Touch(st, st.f)
   IN IF FmtAt(a, s1.f) = NUL THEN vsnprintk_out(a, s1) ELSE next_char_in_seq(a, s1)

\* lines 397-406: unknown_seq, incomplete_seq
unknown_seq(a, st) ==
   LET s1 == write_in_buf_char(a, st, "%")
       s2 == IF st.hash_sign THEN write_in_buf_char(a, s1, "#") ELSE s1
   IN end_sequence(a, write_in_buf_char(a, s2, FmtAt(a, st.f)))

\* lines 239-406
next_char_in_seq(a, st0) ==
   LET st == Touch(st0, st0.f)
       c == FmtAt(a, st.f)
   IN CASE c \in {"d", "i", "u", "o", "x"} ->
              end_sequence(a, write_str(a, st, c, NumStr))
        [] c = "0" ->
              after_modifier(a, [st EXCEPT !.zero_lpad = TRUE, !.f = @ + 1])
        [] IsDigit(c) /\ c # "0" ->
              LET r == tilck_strtol(a, st.f)
              IN after_modifier(a, [Touch(st, r.read) EXCEPT !.left_padding = r.val,
                                                             !.f = r.end])
        [] c = "-" ->
              LET r == tilck_strtol(a, st.f + 1)
              IN after_modifier(a, [Touch(st, r.read) EXCEPT !.right_padding = r.val,
                                                             !.f = r.end])
        [] c = "#" ->
              IF st.hash_sign
                 THEN LET s1 == Touch([st EXCEPT !.f = @ + 1], st.f + 1)
                      IN IF FmtAt(a, s1.f) = NUL THEN unknown_seq(a, s1)
                         ELSE next_char_in_seq(a, s1)
                 ELSE IF FmtAt(a, st.f - 1) # "%" THEN unknown_seq(a, st)
                 ELSE IF FmtAt(a, st.f + 1) = NUL THEN unknown_seq(a, Touch(st, st.f + 1))
                 ELSE next_char_in_seq(a, [Touch(st, st.f + 1) EXCEPT !.f = @ + 1,
                                                                    !.hash_sign = TRUE])
        [] c = "z" ->
              after_modifier(a, [st EXCEPT !.width = "pw_long", !.f = @ + 1])
        [] c \in {"j", "q", "L"} ->
              after_modifier(a, [st EXCEPT !.width = "pw_long_long", !.f = @ + 1])
        [] c = "l" ->
              IF st.width = "pw_default"
                 THEN after_modifier(a, [st EXCEPT !.width = "pw_long", !.f = @ + 1])
              ELSE IF st.width = "pw_long"
                 THEN after_modifier(a, [st EXCEPT !.width = "pw_long_long", !.f = @ + 1])
              ELSE unknown_seq(a, st)
        [] c = "h" ->
              IF st.width = "pw_default"
                 THEN after_modifier(a, [st EXCEPT !.width = "pw_short", !.f = @ + 1])
              ELSE IF st.width = "pw_short"
                 THEN after_modifier(a, [st EXCEPT !.width = "pw_char", !.f = @ + 1])
              ELSE unknown_seq(a, st)
        [] c = "c" -> end_sequence(a, write_str(a, st, "c", <<"a">>))
        [] c = "s" -> end_sequence(a, write_str(a, st, c, a.str))
        [] c = "p" -> end_sequence(a, write_str(a, st, c, NumStr))
        [] OTHER -> unknown_seq(a, st)

\* lines 218-235: the loop over the format string (the alphabet has no
\* byte >= 128)
vsnprintk_loop(a, st0) ==
   LET st == Touch(st0, st0.f)
       c == FmtAt(a, st.f)
   IN IF ~st.ok \/ c = NUL THEN vsnprintk_out(a, st)
      ELSE IF c # "%"
         THEN vsnprintk_loop(a, [write_in_buf_char(a, st, c) EXCEPT !.f = @ + 1])
      ELSE LET s1 == Touch([st EXCEPT !.f = @ + 1], st.f + 1)
           IN IF FmtAt(a, s1.f) = "%"
                 THEN vsnprintk_loop(a, [write_in_buf_char(a, s1, "%") EXCEPT !.f = @ + 1])
                 ELSE next_char_in_seq(a, s1)

\* lines 207-216
vsnprintk(a) ==
   vsnprintk_loop(a, [f |-> 1, out |-> <<>>, ok |-> TRUE, maxread |-> 0,
                      oob_write |-> FALSE, panic |-> FALSE,
                      width |-> "pw_default", left_padding |-> 0, right_padding |-> 0,
                      zero_lpad |-> FALSE, hash_sign |-> FALSE])

InitFmt ==
   /\ mountpoints = <<>>
   /\ ref_count = [f \in FS |-> MountBaseline]
   /\ handles = [h \in H |-> NoHandle]
   /\ file_fops = PlainFops
   /\ UNIT_TEST_ENVIRONMENT = FALSE
   /\ last = NoCall
   /\ held = [l \in Locks |-> 0]
   /\ panicked = FALSE
   /\ cm = cm0
   /\ ConcInit
   /\ DevInit /\ AvlInit /\ TaskletInit
   /\ \E fmt \in Fmts, size \in 1..MaxBufSize, beyond \in Beyond, str \in StrArgs :
         pk = [pk0 EXCEPT !.fmt = fmt, !.size = size, !.beyond = beyond, !.str = str]

ApplyFmt ==
   /\ ~pk.done
   /\ \E r \in {vsnprintk(pk)} :
         pk' = [pk EXCEPT !.done = TRUE, !.ret = r.ret, !.out = r.out,
                          !.nul_at = r.nul_at, !.maxread = r.maxread,
                          !.oob_write = r.oob_write, !.panic = r.panic]
   /\ UNCHANGED <<mountpoints, ref_count, handles, file_fops, UNIT_TEST_ENVIRONMENT,
                   last, held, panicked, cm, conc_vars, dev_vars, avl_vars, st_vars>>

NextFmt == ApplyFmt

SpecFmt == InitFmt /\ [][NextFmt]_vars

(* ------------------------------- claims -------------------------------- *)
\* match length of the i-th registered mountpoint against a query path
MatchLen(i, path) ==
   check_mountpoint_match(mountpoints[i].path, strlen(mountpoints[i].path),
                          path, strlen(path))
Matching(path) == {i \in 1..Len(mountpoints) : MatchLen(i, path) > 0}

HooksOf(calls) == {calls[i].hook : i \in 1..Len(calls)}
LockEvents(calls) == {i \in 1..Len(calls) : IsLock(calls[i]) \/ IsUnlock(calls[i])}
OpenEvents(calls) == {i \in 1..Len(calls) : calls[i].hook = "open"}

\* C1: vfs_open dispatches to the filesystem of a mountpoint whose match
\* length is the greatest among all mountpoints; when no mountpoint matches
\* it returns -ENOENT, invokes no hook and changes no ref_count.
C1_LongestMatchWins ==
   [][(last.op = "none" /\ last'.op = "vfs_open") =>
        LET M == Matching(last'.path)
        IN IF M = {}
              THEN /\ last'.rc = -ENOENT
                   /\ last'.calls = <<>>
                   /\ ref_count' = ref_count
              ELSE /\ last'.mp \in M
                   /\ \A i \in M : MatchLen(i, last'.path) <= MatchLen(last'.mp, last'.path)
                   /\ OpenEvents(last'.calls) # {}
                   /\ \A k \in 1..Len(last'.calls) :
                         last'.calls[k].fs = mountpoints[last'.mp].fs]_vars

\* two mountpoints of different filesystems match, the first one longer,
\* and the open hook of the first one's filesystem was invoked
C1_Witness ==
   /\ last.op = "vfs_open"
   /\ Len(mountpoints) = 2
   /\ MatchLen(1, last.path) > MatchLen(2, last.path)
   /\ MatchLen(2, last.path) > 0
   /\ mountpoints[1].fs # mountpoints[2].fs
   /\ \E k \in OpenEvents(last.calls) : last.calls[k].fs = mountpoints[1].fs

\* C3: the path vfs_open passes to the open hook begins with '/': it is "/"
\* when the match consumed the whole query path (also for '/a' against
\* '/a/'), otherwise the suffix of the query path that starts at the '/'
\* ending the matched mountpoint path.
C3_HookPath ==
   (last.op = "vfs_open" /\ last.mp # NULL) =>
      LET mp == mountpoints[last.mp].path
          p  == last.path
      IN /\ OpenEvents(last.calls) # {}
         /\ \A k \in OpenEvents(last.calls) :
               /\ last.calls[k].path[1] = "/"
               /\ IF Len(mp) >= Len(p)
                     THEN last.calls[k].path = <<"/">>
                     ELSE last.calls[k].path = SubSeq(p, Len(mp), Len(p))

\* '/a/?' opened under the mountpoint '/a/': the hook got the two-character
\* suffix that starts with '/'
C3_Witness ==
   /\ last.op = "vfs_open" /\ last.mp # NULL
   /\ Len(mountpoints[last.mp].path) = 3
   /\ Len(last.path) = 4
   /\ \E k \in OpenEvents(last.calls) :
         last.calls[k].path = <<"/", last.path[4]>>

\* C4: a dispatch operation that returns has acquired at most one lock and
\* released that very lock (same mode, same granularity, same object) after
\* the hook, whatever the hook returned; no lock stays held between calls.
C4_LockRoundTrip ==
   ~panicked =>
      /\ \A l \in Locks : held[l] = 0
      /\ LET c == last.calls
             L == LockEvents(c)
         IN \/ L = {}
            \/ /\ Cardinality(L) = 2
               /\ \E i, j \in L :
                     /\ i < j
                     /\ IsLock(c[i]) /\ IsUnlock(c[j])
                     /\ EvLock(c[i]) = EvLock(c[j])
                     /\ j = Len(c)

\* vfs_write on a handle with its own exlock/exunlock hooks returned the
\* error of the write hook after releasing the handle's lock
C4_Witness ==
   /\ last.op = "vfs_write" /\ last.rc < 0 /\ ~panicked
   /\ Len(last.calls) = 3
   /\ last.calls[1].hook = "exlock"
   /\ last.calls[3].hook = "exunlock"

\* the lock mode of the operation table (spec 4.3); "no" means no lock
ModeOf(op, flags) ==
   CASE op = "vfs_open" -> IF HasFlag(flags, O_CREAT) THEN "ex" ELSE "sh"
     [] op \in {"vfs_read", "vfs_stat64", "vfs_read_ready", "vfs_write_ready",
                "vfs_except_ready", "vfs_getdents64"} -> "sh"
     [] op \in {"vfs_write", "vfs_ioctl", "vfs_fcntl"} -> "ex"
     [] OTHER -> "no"

\* the hook an operation delegates to
HookOf(op) ==
   CASE op = "vfs_open" -> "open"
     [] op = "vfs_close" -> "close"
     [] op = "vfs_dup" -> "dup"
     [] op = "vfs_read" -> "read"
     [] op = "vfs_write" -> "write"
     [] op = "vfs_seek" -> "seek"
     [] op = "vfs_ioctl" -> "ioctl"
     [] op = "vfs_stat64" -> "stat"
     [] op = "vfs_getdents64" -> "getdents64"
     [] op = "vfs_fcntl" -> "fcntl"
     [] op = "vfs_read_ready" -> "read_ready"
     [] op = "vfs_write_ready" -> "write_ready"
     [] op = "vfs_except_ready" -> "except_ready"
     [] OTHER -> "none"

\* C5: each operation uses the lock mode of the operation table: whenever it
\* delegates to its hook it has first taken a lock of that mode (vfs_open:
\* the filesystem-wide one), and it touches no lock of the other mode;
\* vfs_seek, vfs_dup and vfs_close touch no lock at all.
C5_LockModes ==
   last.op # "none" =>
      LET c == last.calls
          mode == ModeOf(last.op, last.flags)
      IN /\ \A i \in LockEvents(c) : mode # "no" /\ EvMode(c[i]) = mode
         /\ (last.op = "vfs_open") => \A i \in LockEvents(c) : EvGran(c[i]) = "fs"
         /\ (mode # "no" /\ HookOf(last.op) \in HooksOf(c)) =>
               /\ IsLock(c[1])
               /\ c[2].hook = HookOf(last.op)

\* vfs_open with O_CREAT set took the exclusive filesystem-wide lock
C5_Witness ==
   /\ last.op = "vfs_open" /\ HasFlag(last.flags, O_CREAT)
   /\ Len(last.calls) = 3
   /\ last.calls[1].hook = "fs_exlock"
   /\ last.calls[2].hook = "open"

\* operations that lock through vfs_exlock/vfs_shlock of the handle
HandleLockOps == {"vfs_read", "vfs_write", "vfs_ioctl", "vfs_fcntl", "vfs_stat64",
                  "vfs_read_ready", "vfs_write_ready", "vfs_except_ready"}

\* the operation reached its lock call: its hook exists
TakesHandleLock == last.op \in HandleLockOps /\ HookOf(last.op) \in last.fops

LockHookName(mode)   == IF mode = "ex" THEN "exlock" ELSE "shlock"
UnlockHookName(mode) == IF mode = "ex" THEN "exunlock" ELSE "shunlock"

\* C6: if the handle has neither hook of the pair, the lock and the unlock
\* go to the filesystem-wide hooks of the same mode of the owning filesystem;
\* if it has both, only the handle's hooks are invoked and the
\* filesystem-wide lock is not touched.
C6_LockDelegation ==
   TakesHandleLock =>
      LET c == last.calls
          mode == ModeOf(last.op, last.flags)
          lk == LockHookName(mode)
          ul == UnlockHookName(mode)
      IN /\ ({lk, ul} \cap last.fops = {}) =>
               /\ Len(c) = 3
               /\ c[1] = Ev("fs_" \o lk, last.fs, NULL, <<>>)
               /\ c[3] = Ev("fs_" \o ul, last.fs, NULL, <<>>)
         /\ ({lk, ul} \subseteq last.fops) =>
               /\ Len(c) = 3
               /\ c[1] = Ev(lk, last.fs, last.h, <<>>)
               /\ c[3] = Ev(ul, last.fs, last.h, <<>>)
               /\ \A i \in LockEvents(c) : EvGran(c[i]) = "h"

\* vfs_ioctl on a handle with exlock and exunlock but no shared-lock hooks
C6_Witness ==
   /\ last.op = "vfs_ioctl"
   /\ {"exlock", "exunlock"} \subseteq last.fops
   /\ {"shlock", "shunlock"} \cap last.fops = {}
   /\ Len(last.calls) = 3
   /\ last.calls[1].hook = "exlock"

\* C7: if the handle has exactly one hook of the pair of the operation's
\* lock mode, the operation ends in a failed assertion and returns nothing.
C7_MismatchedPairIsFatal ==
   TakesHandleLock =>
      LET mode == ModeOf(last.op, last.flags)
          lk == LockHookName(mode)
          ul == UnlockHookName(mode)
      IN (Cardinality({lk, ul} \cap last.fops) = 1) => (last.panic /\ panicked)

\* vfs_read on a handle with shlock but without shunlock stopped the kernel
\* after the read hook had run
C7_Witness ==
   /\ last.op = "vfs_read" /\ last.panic
   /\ "shlock" \in last.fops /\ "shunlock" \notin last.fops
   /\ "read" \in HooksOf(last.calls)

\* C8: vfs_getdents64 brackets the getdents hook with fs_shlock and
\* fs_shunlock of the handle's filesystem and invokes no hook of the handle's
\* own lock pairs.
C8_GetdentsFsLock ==
   last.op = "vfs_getdents64" =>
      last.calls = <<Ev("fs_shlock", last.fs, NULL, <<>>),
                     Ev("getdents64", last.fs, last.h, <<>>),
                     Ev("fs_shunlock", last.fs, NULL, <<>>)>>

\* vfs_getdents64 ran on a handle that has its own shlock/shunlock hooks
C8_Witness ==
   /\ last.op = "vfs_getdents64" /\ ~last.panic
   /\ {"shlock", "shunlock"} \subseteq last.fops
   /\ Len(last.calls) = 3

HandlesOf(f) == {h \in H : handles[h] # NoHandle /\ handles[h].fs = f}

\* C9: ref_count is the mount baseline plus the number of open handles of
\* the filesystem, so it is at least 1 and the assertion of vfs_close holds.
C9_RefCount ==
   /\ \A f \in FS : /\ ref_count[f] = MountBaseline + Cardinality(HandlesOf(f))
                    /\ ref_count[f] >= 1
   /\ last.op = "vfs_close" => ~last.panic

\* a successful vfs_dup brought the count to baseline + 2
C9_Witness ==
   /\ last.op = "vfs_dup" /\ last.rc = 0
   /\ ref_count[last.fs] = MountBaseline + 2

AllReturned == \A t \in Tasks : task[t].pc = "idle"

\* C10: under every interleaving of concurrent vfs_open, vfs_dup and
\* vfs_close calls no update of ref_count is lost: once all calls have
\* returned, ref_count = baseline + successful opens + successful dups
\* - closes.
C10_NoLostUpdate ==
   AllReturned =>
      ref_count[ConcFs] = MountBaseline + tally.opens + tally.dups - tally.closes

\* position of statement x in a trace, 0 when it is not executed
Pos(x, trace) ==
   IF \E i \in 1..Len(trace) : trace[i] = x
      THEN CHOOSE i \in 1..Len(trace) : trace[i] = x ELSE 0
Count(x, trace) == Cardinality({i \in 1..Len(trace) : trace[i] = x})

\* C11: in every vfs_close the mappings backed by the handle are removed
\* first (the step is absent only when UNIT_TEST_ENVIRONMENT is defined),
\* then the close hook is invoked, and ref_count is decremented only after
\* the close hook has returned.
C11_CloseOrder ==
   last.op = "vfs_close" =>
      /\ Count("remove_all_mappings_of_handle", last.trace)
            = (IF UNIT_TEST_ENVIRONMENT THEN 0 ELSE 1)
      /\ Count("close", last.trace) = 1
      /\ Count("ref_count--", last.trace) = 1
      /\ Pos("remove_all_mappings_of_handle", last.trace) < Pos("close", last.trace)
      /\ Pos("close", last.trace) < Pos("ref_count--", last.trace)
      /\ \A i \in 1..Len(last.calls) :
            last.calls[i].hook = last.trace[i] /\ last.calls[i].h = last.h
      /\ ref_count[last.fs] = MountBaseline + Cardinality(HandlesOf(last.fs))

\* a handle was closed in a build with a running task: three steps
C11_Witness ==
   /\ last.op = "vfs_close" /\ ~UNIT_TEST_ENVIRONMENT
   /\ Len(last.calls) = 2 /\ Len(last.trace) = 4

\* a handle was closed in a build without a running task
C11_WitnessUnitTest ==
   /\ last.op = "vfs_close" /\ UNIT_TEST_ENVIRONMENT
   /\ Len(last.calls) = 1

\* C12: vfs_dup returns -EBADF for a null handle without invoking any hook;
\* a non-zero value of the dup hook is returned unchanged and leaves
\* ref_count unchanged; only when the hook returns 0 is ref_count
\* incremented, by exactly 1, and 0 returned.
C12_DupErrors ==
   [][(last = NoCall /\ last'.op = "vfs_dup") =>
         IF last'.h = NULL
            THEN /\ last'.rc = -EBADF /\ last'.calls = <<>>
                 /\ ref_count' = ref_count
            ELSE /\ Len(last'.calls) = 1
                 /\ last'.calls[1] = Ev("dup", handles[last'.h].fs, last'.h, <<>>)
                 /\ last'.rc = last'.hook_rc
                 /\ IF last'.hook_rc # 0
                       THEN ref_count' = ref_count
                       ELSE ref_count' = [ref_count EXCEPT ![handles[last'.h].fs] = @ + 1]
     ]_vars

\* the dup hook failed with a positive value on a filesystem with two handles
C12_Witness ==
   /\ last.op = "vfs_dup" /\ last.h # NULL
   /\ last.hook_rc > 0 /\ last.rc = last.hook_rc
   /\ ref_count[last.fs] = MountBaseline + 1

CapabilityOps == {"vfs_read", "vfs_write", "vfs_fcntl", "vfs_seek", "vfs_ioctl"}
CapabilityError(op) ==
   CASE op \in {"vfs_read", "vfs_write", "vfs_fcntl"} -> -EINVAL
     [] op = "vfs_seek" -> -ESPIPE
     [] op = "vfs_ioctl" -> -ENOTTY
NoLockHeld == \A l \in Locks : held[l] = 0

\* C13: a dispatch call on a handle whose operation table lacks the hook of
\* the operation returns the capability error of the operation (-EINVAL for
\* vfs_read, vfs_write, vfs_fcntl; -ESPIPE for vfs_seek; -ENOTTY for
\* vfs_ioctl), acquires no lock and invokes no hook.
C13_CapabilityErrors ==
   (last.op \in CapabilityOps /\ HookOf(last.op) \notin last.fops) =>
      /\ last.rc = CapabilityError(last.op)
      /\ last.calls = <<>>
      /\ ~last.panic
      /\ NoLockHeld

\* vfs_seek on a handle without a seek hook, but with its own lock hooks
C13_Witness ==
   /\ last.op = "vfs_seek" /\ "seek" \notin last.fops
   /\ LockHooks \subseteq last.fops
   /\ last.rc = -ESPIPE

ReadyOps == {"vfs_read_ready", "vfs_write_ready", "vfs_except_ready"}
ReadyDefault(op) == IF op = "vfs_except_ready" THEN 0 ELSE 1

\* C14: for a handle without readiness hooks vfs_read_ready and
\* vfs_write_ready return true and vfs_except_ready returns false, without
\* acquiring any lock; for a handle with the readiness hook the query
\* returns the value of the hook, invoked while the shared lock is held.
C14_ReadyDefaults ==
   last.op \in ReadyOps =>
      IF HookOf(last.op) \notin last.fops
         THEN /\ last.rc = ReadyDefault(last.op)
              /\ last.calls = <<>> /\ ~last.panic /\ NoLockHeld
         ELSE ~last.panic =>
                 /\ last.rc = last.hook_rc
                 /\ Len(last.calls) = 3
                 /\ IsLock(last.calls[1]) /\ EvMode(last.calls[1]) = "sh"
                 /\ last.calls[2] = Ev(HookOf(last.op), last.fs, last.h, <<>>)
                 /\ IsUnlock(last.calls[3])
                 /\ EvLock(last.calls[3]) = EvLock(last.calls[1])

\* vfs_except_ready on a handle without readiness hooks returned false
C14_Witness ==
   /\ last.op = "vfs_except_ready" /\ "except_ready" \notin last.fops
   /\ last.rc = 0

\* a read_ready hook answered false and vfs_read_ready returned false
C14_WitnessHook ==
   /\ last.op = "vfs_read_ready" /\ "read_ready" \in last.fops
   /\ last.hook_rc = 0 /\ last.rc = 0 /\ Len(last.calls) = 3

\* C15: vfs_get_new_device_id is a monotonically increasing counter without
\* reuse, also under concurrent calls: a call returns a value strictly
\* greater than the value of every call that returned before it started,
\* and no two calls return the same device id.
C15_UniqueDeviceIds ==
   \A i, j \in 1..Len(returned) :
      /\ j <= returned[i].began => returned[j].id < returned[i].id
      /\ i # j => returned[i].id # returned[j].id

\* C20: check_mountpoint_match returns 0 when there is no match and
\* strlen(mp) when there is one, for every mountpoint path ending in '/'
\* and every absolute path (stated for the mountpoint paths without empty
\* components, the ones a mount registers).
C20_ReturnsMountpointLength ==
   (cm.done /\ cm.mp \in MountPaths) => cm.ret \in {0, strlen(cm.mp)}

\* C16: after every insertion into an initially empty tree every node has
\* balance factor height(right) - height(left) in {-1, 0, +1}.
C16_Balanced ==
   \A o \in Members(tree, tree.root_obj) : BF(tree, o) \in {-1, 0, 1}

\* the insertion of the smallest or the greatest of seven objects was
\* rebalanced by rotations: the tree has three levels
C16_Witness ==
   /\ avl_last.ret /\ Cardinality(inserted) = 7
   /\ HEIGHT(tree, tree.root_obj) = 3
   /\ avl_last.obj \in {1, 7}

TreeMembers(t) == Members(t, t.root_obj)
\* number of nodes met when the tree is traversed
RECURSIVE Size(_, _)
Size(t, o) ==
   IF o = NULL THEN 0 ELSE 1 + Size(t, t.left_obj[o]) + Size(t, t.right_obj[o])

\* C17: an insertion returns false exactly when the comparator reports the
\* new object equal to an object of the tree, and then no child reference
\* and no root reference is modified; otherwise it returns true and the
\* node count grows by one, so the tree has as many nodes as there were
\* insertions of pairwise distinct objects.
C17_DuplicateRejected ==
   [][IF \E o \in TreeMembers(tree) : CMP(avl_last'.obj, o) = 0
         THEN ~avl_last'.ret /\ tree' = tree
         ELSE /\ avl_last'.ret
              /\ Size(tree', tree'.root_obj) = Size(tree, tree.root_obj) + 1
              /\ Size(tree', tree'.root_obj) = Cardinality(inserted')
     ]_vars

\* an object equal to, but other than, a member was rejected
C17_Witness ==
   /\ ~avl_last.ret /\ avl_last.obj \notin inserted
   /\ Cardinality(inserted) >= 3
   /\ avl_last.stack_size >= 2

\* C19: after any sequence of insertions the tree is a binary search tree
\* (for every node the objects of its left subtree compare less and those
\* of its right subtree compare greater), and the objects reachable from
\* the root are exactly those whose insertion returned true, each once.
C19_SearchTree ==
   /\ \A n \in TreeMembers(tree) :
         /\ \A o \in Members(tree, tree.left_obj[n]) : CMP(o, n) < 0
         /\ \A o \in Members(tree, tree.right_obj[n]) : CMP(o, n) > 0
   /\ TreeMembers(tree) = inserted
   /\ Size(tree, tree.root_obj) = Cardinality(inserted)

\* a double rotation made the object inserted last the root of the tree
C19_Witness ==
   /\ avl_last.ret /\ tree.root_obj = avl_last.obj
   /\ Cardinality(inserted) >= 3
   /\ tree.left_obj[tree.root_obj] # NULL /\ tree.right_obj[tree.root_obj] # NULL

\* least n with h <= 1.44 * log2(n + 2), that is ceiling(2^(h / 1.44)) - 2
LeastNodes(h) ==
   CASE h <= 1 -> 0
     [] h = 2 -> 1
     [] h = 3 -> 3
     [] h = 4 -> 5
     [] h = 5 -> 10
     [] h = 6 -> 16
     [] h = 7 -> 28
     [] OTHER -> 46
\* h <= 1.44 * log2(n + 2)
WithinHeightBound(h, n) == n >= LeastNodes(h)

\* C18: a tree built by N insertions has height at most 1.44 * log2(N + 2),
\* and the number of entries pushed on the path stack during an insertion
\* (the root reference and one slot per comparison, the final empty slot
\* included) never exceeds that bound; N counts the insertion itself.
C18_HeightAndStackBound ==
   /\ WithinHeightBound(HEIGHT(tree, tree.root_obj), Cardinality(inserted))
   /\ WithinHeightBound(avl_last.stack_size, Cardinality(inserted))

\* the first half of C18 alone: the height of the tree
C18_HeightOnly ==
   WithinHeightBound(HEIGHT(tree, tree.root_obj), Cardinality(inserted))

\* the test_tasklet_func jobs in the queue or taken by the worker
Pending ==
   Cardinality({k \in 1..Len(wq) : wq[k] = "test_tasklet_func"})
      + (IF worker.job = "test_tasklet_func" THEN 1 ELSE 0)

C21_WitnessFull ==
   /\ main.pc = "check" /\ ~main.added
   /\ Len(wq) = max_tasklets /\ g_counter = 0

\* C22: the final handshake cannot lose its wakeup: end_test signals the
\* condition only while it holds ctx.m and after the main task has started
\* to wait, and under fair scheduling the main task, once it is at the
\* handshake (line 122), returns from kcond_wait and the test ends.
C22_NoLostWakeup ==
   /\ [](worker.pc = "et_signal" =>
            (ctx.m = "worker" /\ main.pc = "waiting" /\ "main" \in ctx.c))
   /\ [](main.pc \in {"enqueue_end", "cond_wait"} => ctx.m = "main")
   /\ (main.pc = "lock" ~> main.pc = "done")

\* the test has ended: the main task has returned from kcond_wait
C22_Witness ==
   /\ main.pc = "done" /\ worker = WorkerIdle
   /\ ctx = [m |-> "none", c |-> {}]
   /\ g_counter = tot_iters

\* index of the terminator of the format string
FmtEnd == Len(pk.fmt) + 1

\* C23: for every format string and every size >= 1 vsnprintk writes only
\* to buf[0..size-1], leaves a NUL inside those bytes, returns a value
\* between 0 and size, and never reads the format string beyond its NUL
\* terminator.
C23_MemorySafe ==
   pk.done =>
      /\ ~pk.oob_write
      /\ pk.nul_at \in 0..(pk.size - 1)
      /\ pk.ret \in 0..pk.size
      /\ pk.maxread <= FmtEnd

\* the buffer half of C23 alone
C23_BufferSafe ==
   pk.done =>
      /\ ~pk.oob_write
      /\ pk.nul_at \in 0..(pk.size - 1)
      /\ pk.ret \in 0..pk.size

====
